---- MODULE Spec2Model ----
(***************************************************************************)
(* Model of the movie recommender: the Flask serving process (src/app.py)  *)
(* and the offline pickle optimiser (src/optimize_pickle.py).              *)
(*                                                                         *)
(* Strings are sequences of one-character strings, so that lowercasing,    *)
(* trimming, splitting, suffix tests and substring/regex search are        *)
(* computed rather than assumed.  A DataFrame is a record                  *)
(*   [columns, index, title, TKN, category]                                *)
(* where index is the sequence of row labels (pandas keeps the labels of   *)
(* surviving rows after drop_duplicates), title and TKN are the column     *)
(* values by position, and category is the set of columns with category    *)
(* dtype.  A descriptor (TKN value) is a sequence of already separated     *)
(* lowercase word tokens of two or more characters, the tokens that        *)
(* CountVectorizer's default token pattern yields.  Similarity scores are  *)
(* kept exactly: the pair <<n, d>> stands for the cosine sqrt(n / d).      *)
(* The title and TKN columns hold Python strings (object dtype) unless the *)
(* optimiser has turned them into category.                                *)
(***************************************************************************)
EXTENDS Integers, Sequences, FiniteSets, TLC

VARIABLES
    src,         \* information.pkl as the optimiser script finds it
    out,         \* information_optimized.pkl
    job,         \* how the optimiser run ended ("none" before it runs)
    pkl,         \* information.pkl next to app.py in the deployment
    phase,       \* position in the life of the deployment
    df,          \* app.py global df
    cosine_sim,  \* app.py global cosine_sim
    load_ret,    \* return value of the last load_model_data call
    thread,      \* per request thread: handler position, locals, response
    stem_arg,    \* argument of a simple_stem / TXTtoLST call
    stem_ret     \* its return value

vars == <<src, out, job, pkl, phase, df, cosine_sim, load_ret, thread,
          stem_arg, stem_ret>>

None == [kind |-> "None"]

----------------------------------------------------------------------------
(* Bounds *)

MaxStemLen == 4      \* letters before the ending of a generated word
MaxItems == 3        \* catalogs up to this size are enumerated exhaustively
MaxCatalog == 10     \* largest patterned catalog
MaxConcItems == 4    \* largest catalog of the concurrent specification
NumThreads == 2      \* request threads of the concurrent specification

----------------------------------------------------------------------------
(* Characters and strings *)

UpperToLower == ("A" :> "a") @@ ("B" :> "b") @@ ("S" :> "s") @@ ("I" :> "i") @@ ("N" :> "n") @@ ("G" :> "g")

Whitespace == {" "}

lower_char(c) == IF c \in DOMAIN UpperToLower THEN UpperToLower[c] ELSE c

lower(s) == [i \in 1..Len(s) |-> lower_char(s[i])]

Min(S) == CHOOSE x \in S : \A y \in S : x <= y

endswith(word, suffix) ==
    /\ Len(suffix) <= Len(word)
    /\ SubSeq(word, Len(word) - Len(suffix) + 1, Len(word)) = suffix

\* str.strip(): drop leading and trailing whitespace
strip(s) ==
    LET keep == {i \in 1..Len(s) : s[i] \notin Whitespace}
    IN  IF keep = {} THEN <<>>
        ELSE SubSeq(s, Min(keep), CHOOSE x \in keep : \A y \in keep : y <= x)

\* str.split() without arguments: the maximal runs of non-whitespace
RECURSIVE split_from(_, _, _)
split_from(s, i, cur) ==
    IF i > Len(s) THEN (IF cur = <<>> THEN <<>> ELSE <<cur>>)
    ELSE IF s[i] \in Whitespace
         THEN (IF cur = <<>> THEN <<>> ELSE <<cur>>) \o split_from(s, i + 1, <<>>)
         ELSE split_from(s, i + 1, Append(cur, s[i]))

split(s) == split_from(s, 1, <<>>)

----------------------------------------------------------------------------
(* simple_stem and TXTtoLST  (src/app.py 18-29) *)

suffixes == << <<"i","n","g">>, <<"l","y">>, <<"e","d">>, <<"i","o","u","s">>,
               <<"i","e","s">>, <<"i","v","e">>, <<"e","s">>,
               <<"m","e","n","t">>, <<"s">> >>

\* stem_loop with the length test written >= instead of >
RECURSIVE stem_loop_ge(_, _)
stem_loop_ge(word, k) ==
    IF k > Len(suffixes) THEN word
    ELSE IF endswith(word, suffixes[k]) /\ Len(word) >= Len(suffixes[k]) + 2
         THEN SubSeq(word, 1, Len(word) - Len(suffixes[k]))
         ELSE stem_loop_ge(word, k + 1)

\* the loop of simple_stem from suffix number k on, word already lowercased
RECURSIVE stem_loop(_, _)
stem_loop(word, k) ==
    IF k > Len(suffixes) THEN word
    ELSE IF endswith(word, suffixes[k]) /\ Len(word) > Len(suffixes[k]) + 2
         THEN SubSeq(word, 1, Len(word) - Len(suffixes[k]))
         ELSE stem_loop(word, k + 1)

simple_stem(word) == stem_loop(lower(word), 1)

TXTtoLST(data) == [i \in 1..Len(split(data)) |-> simple_stem(split(data)[i])]

----------------------------------------------------------------------------
(* DataFrames and pickle files *)

essential_columns == {"title", "TKN"}

DataFrame(cols, idx, titles, tkns, cat) ==
    [kind |-> "DataFrame", columns |-> cols, index |-> idx,
     title |-> titles, TKN |-> tkns, category |-> cat]

len(frame) == Len(frame.index)

Absent == [kind |-> "absent"]
Corrupt == [kind |-> "corrupt"]

exists(file) == file.kind # "absent"

\* values of a sequence, as a set
Range(s) == {s[i] : i \in 1..Len(s)}

\* the subsequence of s at the (ascending) positions in keep
RECURSIVE take(_, _, _)
take(s, keep, i) ==
    IF i > Len(s) THEN <<>>
    ELSE (IF i \in keep THEN <<s[i]>> ELSE <<>>) \o take(s, keep, i + 1)

----------------------------------------------------------------------------
(* optimize_pickle.py *)

\* positions kept by drop_duplicates(subset=['title'], keep='first')
first_occurrences(titles) ==
    {i \in 1..Len(titles) : \A j \in 1..(i - 1) : titles[j] # titles[i]}

\* df[available_columns].copy() followed by drop_duplicates: the surviving
\* rows keep their index labels
drop_duplicates(frame, available_columns) ==
    LET n == len(frame)
        keep == IF "title" \in available_columns
                THEN first_occurrences(frame.title) ELSE 1..n
    IN  DataFrame(available_columns,
                  take(frame.index, keep, 1),
                  IF "title" \in available_columns THEN take(frame.title, keep, 1) ELSE <<>>,
                  IF "TKN" \in available_columns THEN take(frame.TKN, keep, 1) ELSE <<>>,
                  frame.category \cap available_columns)

\* the columns the dtype loop turns into category: object columns with
\* num_unique / num_total < 0.5
to_category(frame) ==
    {col \in frame.columns \ frame.category :
        2 * Cardinality(Range(frame[col])) < len(frame)}

\* optimize_pickle(input_file, output_file): how it ends and what it leaves
\* in output_file (prev is the output file before the call)
optimize_pickle(input, prev) ==
    IF input.kind = "corrupt"
    THEN [end |-> "raised", output |-> prev]                 \* pickle.load
    ELSE LET available_columns == essential_columns \cap input.columns
             df_optimized == drop_duplicates(input, available_columns)
         IN  IF available_columns = {}
             THEN [end |-> "returned", output |-> prev]      \* line 35-38
             ELSE IF len(df_optimized) = 0
                     /\ df_optimized.columns \ df_optimized.category # {}
             THEN [end |-> "raised", output |-> prev]        \* 0 / 0, line 51
             ELSE [end |-> "saved",
                   output |-> [df_optimized EXCEPT
                                 !.category = @ \cup to_category(df_optimized)]]

\* the script body under __main__
RunOptimize ==
    /\ phase = "build"
    /\ IF ~exists(src)
       THEN job' = "not_found" /\ out' = out
       ELSE LET r == optimize_pickle(src, out)
            IN  job' = r.end /\ out' = r.output
    /\ phase' = "built"
    /\ UNCHANGED <<src, pkl, df, cosine_sim, load_ret, thread, stem_arg, stem_ret>>

\* the operator copies a pickle next to app.py: the original one, or, as the
\* script's last message asks, the optimised one
DeployOriginal ==
    /\ phase = "build"
    /\ pkl' = src
    /\ phase' = "import"
    /\ UNCHANGED <<src, out, job, df, cosine_sim, load_ret, thread, stem_arg, stem_ret>>

DeployOptimized ==
    /\ phase = "built"
    /\ job = "saved"
    /\ pkl' = out
    /\ phase' = "import"
    /\ UNCHANGED <<src, out, job, df, cosine_sim, load_ret, thread, stem_arg, stem_ret>>

----------------------------------------------------------------------------
(* CountVectorizer and cosine_similarity  (src/app.py 72-74) *)

max_features == 5000

\* a member of scikit-learn's English stop word list
stop_words == {"the"}

RECURSIVE Sum(_, _)
Sum(f, S) ==
    IF S = {} THEN 0
    ELSE LET x == CHOOSE y \in S : TRUE IN f[x] + Sum(f, S \ {x})

term_frequency(docs, term) ==
    Sum([i \in 1..Len(docs) |-> Cardinality({k \in 1..Len(docs[i]) : docs[i][k] = term})],
        1..Len(docs))

\* fit: the terms left after stop word removal, cut to the max_features
\* most frequent ones
vocabulary(docs) ==
    LET terms == UNION {Range(docs[i]) : i \in 1..Len(docs)} \ stop_words
    IN  IF Cardinality(terms) <= max_features THEN terms
        ELSE CHOOSE top \in SUBSET terms :
                /\ Cardinality(top) = max_features
                /\ \A a \in top, b \in terms \ top :
                      term_frequency(docs, a) >= term_frequency(docs, b)

\* transform: the term counts of one document over the vocabulary
count_vector(doc, vocab) ==
    [term \in vocab |-> Cardinality({k \in 1..Len(doc) : doc[k] = term})]

dot(u, v) == Sum([term \in DOMAIN u |-> u[term] * v[term]], DOMAIN u)

\* cosine of two count vectors as <<n, d>> with cosine^2 = n / d; a zero
\* vector is left as it is by the row normalisation, so its cosines are 0
cosine(u, v) ==
    IF dot(u, u) = 0 \/ dot(v, v) = 0 THEN <<0, 1>>
    ELSE <<dot(u, v) * dot(u, v), dot(u, u) * dot(v, v)>>

\* score a > score b  (both cosines are >= 0)
score_gt(a, b) == a[1] * b[2] > b[1] * a[2]

score_eq(a, b) == a[1] * b[2] = b[1] * a[2]

cosine_similarity(docs, vocab) ==
    [kind |-> "ndarray",
     rows |-> [i \in 1..Len(docs) |->
                 [j \in 1..Len(docs) |->
                    cosine(count_vector(docs[i], vocab), count_vector(docs[j], vocab))]]]

----------------------------------------------------------------------------
(* load_model_data and start-up  (src/app.py 31-92, 205-209) *)

\* the globals and the return value load_model_data leaves, from the
\* globals d, c it found
load_model_data(file, d, c) ==
    IF ~exists(file)
    THEN [ret |-> FALSE, df |-> d, cosine_sim |-> c]            \* line 63-64
    ELSE IF file.kind = "corrupt"
    THEN [ret |-> FALSE, df |-> d, cosine_sim |-> c]            \* line 45-47
    ELSE IF "TKN" \notin file.columns
    THEN [ret |-> FALSE, df |-> file, cosine_sim |-> c]         \* line 68-70
    ELSE IF vocabulary(file.TKN) = {}
    THEN [ret |-> FALSE, df |-> file, cosine_sim |-> c]         \* ValueError, 77-79
    ELSE [ret |-> TRUE, df |-> file,
          cosine_sim |-> cosine_similarity(file.TKN, vocabulary(file.TKN))]

\* initialize(), run when the module is imported
initialize ==
    /\ phase = "import"
    /\ IF df = None
       THEN LET r == load_model_data(pkl, df, cosine_sim)
            IN  /\ df' = r.df
                /\ cosine_sim' = r.cosine_sim
                /\ load_ret' = IF r.ret THEN "True" ELSE "False"
       ELSE UNCHANGED <<df, cosine_sim, load_ret>>
    /\ phase' = "imported"
    /\ UNCHANGED <<src, out, job, pkl, thread, stem_arg, stem_ret>>

\* the module runs as a script: load once more if df is still None, app.run
main ==
    /\ phase = "imported"
    /\ IF df = None
       THEN LET r == load_model_data(pkl, df, cosine_sim)
            IN  /\ df' = r.df
                /\ cosine_sim' = r.cosine_sim
                /\ load_ret' = IF r.ret THEN "True" ELSE "False"
       ELSE UNCHANGED <<df, cosine_sim, load_ret>>
    /\ phase' = "serving"
    /\ UNCHANGED <<src, out, job, pkl, thread, stem_arg, stem_ret>>

\* the module is imported by a WSGI host, which serves app directly
serve_wsgi ==
    /\ phase = "imported"
    /\ phase' = "serving"
    /\ UNCHANGED <<src, out, job, pkl, df, cosine_sim, load_ret, thread,
                   stem_arg, stem_ret>>

----------------------------------------------------------------------------
(* Request handlers  (src/app.py 99-203) *)

\* re.search(pat, s) for patterns made of literal characters, "." and "(";
\* no ")" is in the alphabet, so a pattern with "(" does not compile
regex_compiles(pat) == "(" \notin Range(pat)

regex_search(pat, s) ==
    \E i \in 1..(Len(s) - Len(pat) + 1) :
        \A k \in 1..Len(pat) : pat[k] = "." \/ pat[k] = s[i + k - 1]

\* positions (from 1) of the rows selected by
\* df["title"].str.lower().str.contains(pat, na=False)
str_contains(frame, pat) ==
    {p \in 1..len(frame) : regex_search(pat, lower(frame.title[p]))}

internal_error == [status |-> 500, error |-> "Internal server error"]

Idle == [pc |-> "idle", route |-> "", request |-> None, movie_name |-> <<>>,
         movie_index |-> -1, exact_title |-> <<>>, similarity_scores |-> <<>>,
         resp |-> None]

Done(route, request, response) ==
    [Idle EXCEPT !.pc = "done", !.route = route, !.request = request,
                 !.resp = response]

\* sorted(pairs, key=lambda x: x[1], reverse=True): a stable sort, so pairs
\* of equal score keep their order
RECURSIVE insert_desc(_, _)
insert_desc(sorted_pairs, x) ==
    IF sorted_pairs = <<>> THEN <<x>>
    ELSE IF score_gt(x[2], Head(sorted_pairs)[2])
         THEN <<x>> \o sorted_pairs
         ELSE <<Head(sorted_pairs)>> \o insert_desc(Tail(sorted_pairs), x)

\* a descending sort that is not stable: a pair goes before the pairs of
\* equal score
RECURSIVE insert_desc_unstable(_, _)
insert_desc_unstable(sorted_pairs, x) ==
    IF sorted_pairs = <<>> THEN <<x>>
    ELSE IF ~score_gt(Head(sorted_pairs)[2], x[2])
         THEN <<x>> \o sorted_pairs
         ELSE <<Head(sorted_pairs)>> \o insert_desc_unstable(Tail(sorted_pairs), x)

RECURSIVE sorted_desc_unstable(_)
sorted_desc_unstable(pairs) ==
    IF pairs = <<>> THEN <<>>
    ELSE insert_desc_unstable(sorted_desc_unstable(SubSeq(pairs, 1, Len(pairs) - 1)),
                              pairs[Len(pairs)])

RECURSIVE sorted_desc(_)
sorted_desc(pairs) ==
    IF pairs = <<>> THEN <<>>
    ELSE insert_desc(sorted_desc(SubSeq(pairs, 1, Len(pairs) - 1)), pairs[Len(pairs)])

\* the slice written [1:10]
slice_1_10(s) == SubSeq(s, 2, IF Len(s) < 10 THEN Len(s) ELSE 10)

\* the slice [1:9]
slice_1_9(s) == SubSeq(s, 2, IF Len(s) < 9 THEN Len(s) ELSE 9)

\* list(enumerate(row)): pairs <<i, score>> with i counted from 0
enumerate(row) == [i \in 1..Len(row) |-> <<i - 1, row[i]>>]

\* recommend() up to line 143: the thread after the readiness check, the
\* request parsing and the title lookup
recommend_lookup(d, c, body) ==
    LET movie_name == strip(body.movie)
        movie_name_lower == lower(movie_name)
        matching_movies == str_contains(d, movie_name_lower)
        movie_index == d.index[Min(matching_movies)]
    IN  IF d = None \/ c = None
        THEN Done("recommend", body,
                  [status |-> 503, error |-> "Model not loaded. Please try again later."])
        ELSE IF ~body.has_movie
        THEN Done("recommend", body,
                  [status |-> 400, error |-> "Please provide a movie name in the request body."])
        ELSE IF movie_name = <<>>
        THEN Done("recommend", body,
                  [status |-> 400, error |-> "Movie name cannot be empty."])
        ELSE IF "title" \notin d.columns                      \* KeyError
        THEN Done("recommend", body, internal_error)
        ELSE IF ~regex_compiles(movie_name_lower)             \* re.error
        THEN Done("recommend", body, internal_error)
        ELSE IF matching_movies = {}
        THEN Done("recommend", body,
                  [status |-> 404, error |-> "not found in database",
                   movie |-> movie_name])
        ELSE IF movie_index >= len(d)                         \* IndexError, iloc
        THEN Done("recommend", body, internal_error)
        ELSE [Idle EXCEPT !.pc = "rank", !.route = "recommend", !.request = body,
                          !.movie_name = movie_name,
                          !.movie_index = movie_index,
                          !.exact_title = d.title[movie_index + 1]]

\* recommend() from line 146 on, for a thread th that found a title
recommend_rank(d, c, th) ==
    LET similarity_scores ==
            slice_1_9(sorted_desc(enumerate(c.rows[th.movie_index + 1])))
        recommended_movies ==
            [k \in 1..Len(similarity_scores) |-> d.title[similarity_scores[k][1] + 1]]
    IN  [th EXCEPT !.pc = "done",
                   !.similarity_scores = similarity_scores,
                   !.resp = [status |-> 200, query |-> th.movie_name,
                             matched |-> th.exact_title,
                             recommendations |-> recommended_movies]]

\* what a recommend call returns when nothing else runs
recommend(d, c, body) ==
    LET th == recommend_lookup(d, c, body)
    IN  IF th.pc = "rank" THEN recommend_rank(d, c, th) ELSE th

get_movies(d, search) ==
    LET search_query == lower(search)
        rows == IF search_query # <<>> THEN str_contains(d, search_query)
                ELSE 1..len(d)
        titles == take(d.title, rows, 1)
    IN  IF d = None
        THEN Done("movies", search, [status |-> 503, error |-> "Movie database not loaded."])
        ELSE IF "title" \notin d.columns                      \* KeyError
        THEN Done("movies", search, internal_error)
        ELSE IF search_query # <<>> /\ ~regex_compiles(search_query)
        THEN Done("movies", search, internal_error)
        ELSE Done("movies", search,
                  [status |-> 200, count |-> Len(titles), movies |-> titles])

health(d, c) ==
    Done("health", None,
         [status |-> 200, health |-> "healthy",
          model_loaded |-> (d # None /\ c # None),
          total_movies |-> IF d # None THEN len(d) ELSE 0])

test(d) ==
    Done("test", None,
         [status |-> 200, message |-> "CORS test successful!",
          movies_loaded |-> IF d # None THEN len(d) ELSE 0])

Recommend(t, body) ==
    /\ phase = "serving"
    /\ thread[t].pc # "rank"
    /\ thread' = [thread EXCEPT ![t] = recommend_lookup(df, cosine_sim, body)]
    /\ UNCHANGED <<src, out, job, pkl, phase, df, cosine_sim, load_ret,
                   stem_arg, stem_ret>>

RecommendRank(t) ==
    /\ phase = "serving"
    /\ thread[t].pc = "rank"
    /\ thread' = [thread EXCEPT ![t] = recommend_rank(df, cosine_sim, thread[t])]
    /\ UNCHANGED <<src, out, job, pkl, phase, df, cosine_sim, load_ret,
                   stem_arg, stem_ret>>

\* a get_movies that keeps the lowercased titles in the global df
GetMoviesLowersDf(t, search) ==
    /\ phase = "serving"
    /\ thread[t].pc # "rank"
    /\ thread' = [thread EXCEPT ![t] = get_movies(df, search)]
    /\ df' = IF df # None /\ "title" \in df.columns
             THEN [df EXCEPT !.title = [i \in 1..Len(@) |-> lower(@[i])]]
             ELSE df
    /\ UNCHANGED <<src, out, job, pkl, phase, cosine_sim, load_ret,
                   stem_arg, stem_ret>>

GetMovies(t, search) ==
    /\ phase = "serving"
    /\ thread[t].pc # "rank"
    /\ thread' = [thread EXCEPT ![t] = get_movies(df, search)]
    /\ UNCHANGED <<src, out, job, pkl, phase, df, cosine_sim, load_ret,
                   stem_arg, stem_ret>>

Health(t) ==
    /\ phase = "serving"
    /\ thread[t].pc # "rank"
    /\ thread' = [thread EXCEPT ![t] = health(df, cosine_sim)]
    /\ UNCHANGED <<src, out, job, pkl, phase, df, cosine_sim, load_ret,
                   stem_arg, stem_ret>>

Test(t) ==
    /\ phase = "serving"
    /\ thread[t].pc # "rank"
    /\ thread' = [thread EXCEPT ![t] = test(df)]
    /\ UNCHANGED <<src, out, job, pkl, phase, df, cosine_sim, load_ret,
                   stem_arg, stem_ret>>

----------------------------------------------------------------------------
(* Calls of the stemmer *)

CallSimpleStem ==
    /\ phase = "stem"
    /\ stem_ret = None
    /\ Range(stem_arg) \cap Whitespace = {}
    /\ stem_ret' = [fn |-> "simple_stem", value |-> simple_stem(stem_arg)]
    /\ UNCHANGED <<src, out, job, pkl, phase, df, cosine_sim, load_ret, thread,
                   stem_arg>>

CallTXTtoLST ==
    /\ phase = "stem"
    /\ stem_ret = None
    /\ stem_ret' = [fn |-> "TXTtoLST", value |-> TXTtoLST(stem_arg)]
    /\ UNCHANGED <<src, out, job, pkl, phase, df, cosine_sim, load_ret, thread,
                   stem_arg>>

----------------------------------------------------------------------------
(* Inputs *)

\* sequences over S of length at most n
SeqsUpTo(S, n) == UNION {[1..k -> S] : k \in 0..n}

TitlePool == << <<"A", "b">>, <<"b", "b">>, <<"a", ".">> >>

TknPool == << <<"the">>, <<"war">>, <<"war", "love">> >>

all_columns == {"title", "TKN", "overview"}

RangeIndex(n) == [i \in 1..n |-> i - 1]

\* a freshly built catalog: default index, object columns
RawFrame(cols, titles, tkns) ==
    DataFrame(cols, RangeIndex(IF "title" \in cols THEN Len(titles) ELSE Len(tkns)),
              IF "title" \in cols THEN titles ELSE <<>>,
              IF "TKN" \in cols THEN tkns ELSE <<>>, {})

SmallFrames ==
    {RawFrame(cols, [i \in 1..n |-> TitlePool[r[i][1]]], [i \in 1..n |-> TknPool[r[i][2]]]) :
        <<cols, n, r>> \in
            {x \in (SUBSET all_columns) \X (0..MaxItems)
                    \X SeqsUpTo((1..Len(TitlePool)) \X (1..Len(TknPool)), MaxItems) :
                "overview" \in x[1] /\ Len(x[3]) = x[2]}}

\* a longer catalog: titles come in pairs, descriptors cycle
PatternFrame(n) ==
    RawFrame(all_columns,
             [i \in 1..n |-> TitlePool[(((i - 1) \div 2) % Len(TitlePool)) + 1]],
             [i \in 1..n |-> TknPool[((i - 1) % Len(TknPool)) + 1]])

PickleFiles ==
    {Absent, Corrupt} \cup SmallFrames
        \cup {PatternFrame(n) : n \in (MaxItems + 1)..MaxCatalog}

ConcPickleFiles == {PatternFrame(n) : n \in 3..MaxConcItems}

Queries == { <<>>, <<" ">>, <<" ", "b", " ">>, <<"a", "B">>, <<"b", "B">>,
             <<"b", "a">>, <<".">>, <<"(">> }

Bodies == {[has_movie |-> FALSE, movie |-> <<>>]}
            \cup {[has_movie |-> TRUE, movie |-> q] : q \in Queries}

Searches == { <<>>, <<"B">>, <<"(">> }

StemLetters == {"a", "S"}

Endings == Range(suffixes) \cup { <<>>, <<"I", "N", "G">> }

Words == {p \o e : p \in SeqsUpTo(StemLetters, MaxStemLen), e \in Endings}

TextWords == {<<"a", "a", "a">> \o e : e \in Endings}

Texts == Words
           \cup {w1 \o <<" ">> \o w2 : w1 \in TextWords, w2 \in TextWords}
           \cup {<<" ">> \o w1 \o <<" ", " ">> \o w2 \o <<" ">> : w1 \in TextWords, w2 \in {<<"a", "S">>}}

----------------------------------------------------------------------------
(* Specifications *)

InitFrom(files) ==
    /\ src \in files
    /\ out = Absent
    /\ job = "none"
    /\ pkl = Absent
    /\ phase = "build"
    /\ df = None
    /\ cosine_sim = None
    /\ load_ret = "none"
    /\ thread = [t \in 1..NumThreads |-> Idle]
    /\ stem_arg = <<>>
    /\ stem_ret = None

Init == InitFrom(PickleFiles)

Startup ==
    \/ RunOptimize
    \/ DeployOriginal
    \/ DeployOptimized
    \/ initialize
    \/ main
    \/ serve_wsgi

Handle(t) ==
    \/ \E body \in Bodies : Recommend(t, body)
    \/ RecommendRank(t)
    \/ \E search \in Searches : GetMovies(t, search)
    \/ Health(t)
    \/ Test(t)

\* the deployment with requests handled one at a time
Next == Startup \/ Handle(1)

Spec == Init /\ [][Next]_vars

\* the deployment with NumThreads request threads
InitConc == InitFrom(ConcPickleFiles)

NextConc == Startup \/ \E t \in 1..NumThreads : Handle(t)

SpecConc == InitConc /\ [][NextConc]_vars

\* calls of simple_stem and TXTtoLST on generated texts
InitStem ==
    /\ src = Absent
    /\ out = Absent
    /\ job = "none"
    /\ pkl = Absent
    /\ phase = "stem"
    /\ df = None
    /\ cosine_sim = None
    /\ load_ret = "none"
    /\ thread = [t \in 1..NumThreads |-> Idle]
    /\ stem_arg \in Texts
    /\ stem_ret = None

NextStem == CallSimpleStem \/ CallTXTtoLST

SpecStem == InitStem /\ [][NextStem]_vars

----------------------------------------------------------------------------
(* Properties *)

Threads == 1..NumThreads

\* thread t holds the response of a recommend call
Answered(t) == thread[t].pc = "done" /\ thread[t].route = "recommend"

\* thread t holds a successful recommend response
Recommended(t) == Answered(t) /\ thread[t].resp.status = 200

\* q occurs in s as a plain substring
is_substring(q, s) ==
    \E i \in 1..(Len(s) - Len(q) + 1) : SubSeq(s, i, i + Len(q) - 1) = q

\* positions (from 1) of the titles of frame that contain q, ignoring case
containing(frame, q) ==
    {p \in 1..Len(frame.title) : is_substring(q, lower(frame.title[p]))}

normalized(body) == lower(strip(body.movie))

\* C1: with a loaded catalog and a query whose trimmed, lowercased form is
\* non-empty and occurs in some lowercased title, recommend answers 200, the
\* matched title is the title at the lowest position containing the query
\* (so it contains the query), and the similarity row used is that item's.
C1_FirstMatchReported ==
    \A t \in Threads :
        (/\ Answered(t)
         /\ load_ret = "True"
         /\ thread[t].request.has_movie
         /\ normalized(thread[t].request) # <<>>
         /\ containing(df, normalized(thread[t].request)) # {})
        => LET m == Min(containing(df, normalized(thread[t].request)))
           IN  /\ thread[t].resp.status = 200
               /\ thread[t].resp.matched = df.title[m]
               /\ is_substring(normalized(thread[t].request),
                               lower(thread[t].resp.matched))
               /\ thread[t].movie_index + 1 = m

\* C2: the recommendations computed for the matched item never contain the
\* matched item itself.
C2_SelfExcluded ==
    \A t \in Threads :
        Recommended(t) =>
            \A k \in 1..Len(thread[t].similarity_scores) :
                thread[t].similarity_scores[k][1] # thread[t].movie_index

\* C3: after a load_model_data call that returned False, df and cosine_sim
\* are both set or both unset.
C3_NoHalfInitialized ==
    load_ret = "False" => ((df = None) <=> (cosine_sim = None))

\* C4: a successful recommend returns at most 8 titles, and fewer than 8 only
\* when the catalog has N - 1 < 8 other items, and then exactly N - 1.
C4_BoundedSize ==
    \A t \in Threads :
        Recommended(t) =>
            LET n == Len(thread[t].resp.recommendations)
            IN  /\ n <= 8
                /\ n = Len(thread[t].similarity_scores)
                /\ n < 8 => (len(df) - 1 < 8 /\ n = len(df) - 1)

\* a successful recommend on a catalog of more than 9 items returned 8 titles
C4_Witness ==
    \E t \in Threads :
        /\ Recommended(t)
        /\ len(df) > 9
        /\ Len(thread[t].resp.recommendations) = 8

\* the score of item i (counted from 0) to the item thread t matched
score_to_matched(t, i) == cosine_sim.rows[thread[t].movie_index + 1][i + 1]

\* C5: the recommendations of a successful recommend are in non-increasing
\* order of similarity to the matched item, and recommendations of equal
\* score are in ascending order of item index.
C5_Ordering ==
    \A t \in Threads :
        Recommended(t) =>
            LET ss == thread[t].similarity_scores
            IN  /\ \A k \in 1..Len(ss) :
                      /\ thread[t].resp.recommendations[k] = df.title[ss[k][1] + 1]
                      /\ ss[k][2] = score_to_matched(t, ss[k][1])
                /\ \A j, k \in 1..Len(ss) :
                      j < k =>
                          /\ ~score_gt(score_to_matched(t, ss[k][1]),
                                       score_to_matched(t, ss[j][1]))
                          /\ score_eq(score_to_matched(t, ss[j][1]),
                                      score_to_matched(t, ss[k][1]))
                                => ss[j][1] < ss[k][1]

\* a successful recommend returned a list with a tie and a strict descent
C5_Witness ==
    \E t \in Threads :
        /\ Recommended(t)
        /\ \E j, k \in 1..(Len(thread[t].similarity_scores) - 1) :
              /\ score_eq(thread[t].similarity_scores[j][2],
                          thread[t].similarity_scores[j + 1][2])
              /\ score_gt(thread[t].similarity_scores[k][2],
                          thread[t].similarity_scores[k + 1][2])

\* C6: with the model loaded, an empty or whitespace-only query is answered
\* 400 (empty query) and a query contained in no lowercased title is
\* answered 404 naming the query; neither produces recommendations.
C6_ErrorOutcomes ==
    \A t \in Threads :
        (/\ Answered(t)
         /\ df # None /\ cosine_sim # None
         /\ "title" \in df.columns
         /\ thread[t].request.has_movie)
        => /\ strip(thread[t].request.movie) = <<>>
                => /\ thread[t].resp = [status |-> 400,
                                        error |-> "Movie name cannot be empty."]
                   /\ thread[t].similarity_scores = <<>>
           /\ (/\ strip(thread[t].request.movie) # <<>>
               /\ containing(df, normalized(thread[t].request)) = {})
                => /\ thread[t].resp = [status |-> 404,
                                        error |-> "not found in database",
                                        movie |-> strip(thread[t].request.movie)]
                   /\ thread[t].similarity_scores = <<>>

\* what the handler of a route returns for a request when it runs alone
alone(d, c, route, request) ==
    CASE route = "recommend" -> recommend(d, c, request)
      [] route = "movies" -> get_movies(d, request)
      [] route = "health" -> health(d, c)
      [] route = "test" -> test(d)

\* C7: while serving, no step of a handler changes df or cosine_sim, and
\* every response equals the one the same call returns when run alone
\* against that state, whatever the other threads do.
C7_ReadOnlyServing ==
    [][phase = "serving" =>
          /\ df' = df
          /\ cosine_sim' = cosine_sim
          /\ \A t \in Threads :
                thread'[t].pc = "done" =>
                    thread'[t] = alone(df, cosine_sim, thread'[t].route,
                                       thread'[t].request)]_vars

\* one thread is between the two halves of recommend while another thread
\* holds a successful recommend response
C7_Witness ==
    \E t, u \in Threads :
        /\ t # u
        /\ thread[t].pc = "rank"
        /\ Recommended(u)

\* the two kinds of load failure
not_available(file) == ~exists(file)

corrupted(file) ==
    \/ file.kind = "corrupt"
    \/ file.kind = "DataFrame" /\ "TKN" \notin file.columns

\* what a caller can observe of the serving state d, c after load returned r
observable(r, d, c) ==
    [load_ret |-> r, df |-> d, cosine_sim |-> c,
     health |-> health(d, c).resp,
     recommend |-> [body \in Bodies |-> recommend(d, c, body).resp]]

\* C8: a load that fails because the file is absent never leaves the same
\* observable state as a load that fails because the file is corrupted.
C8_CausesDistinguished ==
    (phase \in {"imported", "serving"} /\ load_ret = "False" /\ not_available(pkl))
        => \A f \in PickleFiles :
              corrupted(f) =>
                  LET r == load_model_data(f, None, None)
                  IN  observable(r.ret, r.df, r.cosine_sim)
                        # observable(FALSE, df, cosine_sim)

\* C9: the optimiser leaves an output file only when its input is a
\* non-empty catalog with both required fields, title and TKN.
C9_NoPartialOutput ==
    exists(out) =>
        /\ src.kind = "DataFrame"
        /\ essential_columns \subseteq src.columns
        /\ len(src) > 0

\* the tokens the call in stem_ret stemmed, and the stems it returned
call_tokens == IF stem_ret.fn = "simple_stem" THEN <<stem_arg>> ELSE split(stem_arg)

call_stems == IF stem_ret.fn = "simple_stem" THEN <<stem_ret.value>> ELSE stem_ret.value

\* word without the first of the suffixes numbered in q, if any
strip_first(word, q) ==
    IF q = {} THEN word
    ELSE SubSeq(word, 1, Len(word) - Len(suffixes[Min(q)]))

\* the suffixes word ends with whose removal leaves more than
\* suffix_length + 2 characters
stem_exceeds(word) ==
    {k \in 1..Len(suffixes) :
        endswith(word, suffixes[k])
            /\ Len(word) - Len(suffixes[k]) > Len(suffixes[k]) + 2}

\* the suffixes word ends with such that word has more than
\* suffix_length + 2 characters
token_exceeds(word) ==
    {k \in 1..Len(suffixes) :
        endswith(word, suffixes[k]) /\ Len(word) > Len(suffixes[k]) + 2}

\* C10 as stated: simple_stem lowercases the token and strips the first
\* suffix in priority order that the token ends with and whose removal
\* leaves a stem longer than suffix_length + 2; otherwise the lowercased
\* token is returned.
C10_StemLongerThanSuffixPlus2 ==
    stem_ret # None =>
        /\ Len(call_stems) = Len(call_tokens)
        /\ \A i \in 1..Len(call_tokens) :
              call_stems[i] = strip_first(lower(call_tokens[i]),
                                          stem_exceeds(lower(call_tokens[i])))

\* C10 amended: simple_stem lowercases the token and strips the first suffix
\* in priority order that the token ends with and for which the length of
\* the whole token exceeds suffix_length + 2; otherwise the lowercased token
\* is returned.
C10_TokenLongerThanSuffixPlus2 ==
    stem_ret # None =>
        /\ Len(call_stems) = Len(call_tokens)
        /\ \A i \in 1..Len(call_tokens) :
              call_stems[i] = strip_first(lower(call_tokens[i]),
                                          token_exceeds(lower(call_tokens[i])))

\* simple_stem stripped a suffix and left a stem no longer than
\* suffix_length + 2
C10_Witness ==
    /\ stem_ret # None
    /\ stem_ret.fn = "simple_stem"
    /\ Len(stem_ret.value) < Len(stem_arg)
    /\ Len(stem_ret.value) <= (Len(stem_arg) - Len(stem_ret.value)) + 2

====
